---------------------------- MODULE Spec2Model ----------------------------
(***************************************************************************)
(* A model of the constitution-engine decision core: the autonomy-band     *)
(* evaluator, the hash-chained decision ledger, the policy loader and its  *)
(* cache, the reward computation and the outcome routes, translated from   *)
(* the TypeScript sources.                                                 *)
(***************************************************************************)
EXTENDS Integers, Sequences, FiniteSets, TLC

VARIABLES
    arg,        \* the argument of the pure function under check
    ret,        \* its result, or NotCalled
    ledger,     \* the decisions table, in insertion order
    outcomes,   \* the outcomes table, one row per decision id at most
    cache,      \* PolicyLoader's cache: key string -> entry
    reqs,       \* the position and locals of each in-flight makeDecision
    response,   \* the response the last step sent, NoResponse when it sent none
    matchedAt,  \* history: decision id -> the band evaluate matched for it
    now,        \* the clock
    policyVariantsStats, \* the policy_variants_stats table: variant -> row
    loads       \* history: what the calls of PolicyLoader.load cached and threw

vars == <<arg, ret, ledger, outcomes, cache, reqs, response, matchedAt, now,
          policyVariantsStats, loads>>

(***************************************************************************)
(* Bounds of the model.                                                    *)
(***************************************************************************)
MaxBands == 2
Threshold == 1

(***************************************************************************)
(* JavaScript values.  A value is a record [type, v]; an object is a       *)
(* sequence of <<key, value>> pairs in key insertion order, an array a     *)
(* sequence of values.                                                     *)
(***************************************************************************)
Undefined == [type |-> "undefined", v |-> 0]
Null == [type |-> "null", v |-> 0]
Bool(b) == [type |-> "boolean", v |-> b]
Num(n) == [type |-> "number", v |-> n]
Str(s) == [type |-> "string", v |-> s]
Obj(pairs) == [type |-> "object", v |-> pairs]
Arr(elems) == [type |-> "array", v |-> elems]

NaN == [nan |-> TRUE, n |-> 0]
Finite(n) == [nan |-> FALSE, n |-> n]

\* StringToNumber of the strings the model uses: a decimal numeral reads as
\* its number, the empty string as 0, anything else as NaN.
StringToNumber(s) ==
    CASE s = "" -> Finite(0)
      [] s = "0" -> Finite(0)
      [] s = "1" -> Finite(1)
      [] s = "2" -> Finite(2)
      [] s = "3" -> Finite(3)
      [] OTHER -> NaN

\* ToNumber, as the relational operators apply it to a non-number operand.
ToNumber(x) ==
    CASE x.type = "number" -> Finite(x.v)
      [] x.type = "undefined" -> NaN
      [] x.type = "null" -> Finite(0)
      [] x.type = "boolean" -> Finite(IF x.v THEN 1 ELSE 0)
      [] x.type = "string" -> StringToNumber(x.v)
      [] x.type = "object" -> NaN

\* x > t and x < t for a number t: false when x converts to NaN.
JsGreater(x, t) == LET nx == ToNumber(x) IN ~nx.nan /\ nx.n > t
JsLess(x, t) == LET nx == ToNumber(x) IN ~nx.nan /\ nx.n < t

\* typeof x
TypeOf(x) == IF x.type \in {"null", "array"} THEN "object" ELSE x.type

HasKey(obj, key) == \E i \in 1..Len(obj) : obj[i][1] = key

\* obj[key]: undefined when the key is absent
Get(obj, key) ==
    IF HasKey(obj, key)
    THEN obj[CHOOSE i \in 1..Len(obj) : obj[i][1] = key][2]
    ELSE Undefined

(***************************************************************************)
(* The evaluator.  A constraint key is the pair <<prefix, field>> standing *)
(* for the string prefix \o field, so that startsWith and replace can be   *)
(* computed; a constraints object is a sequence of <<key, threshold>>.     *)
(***************************************************************************)
Throw(error, msg) == [kind |-> "throw", error |-> error, msg |-> msg]

\* no pure function under check, and no result yet
NoCall == [fn |-> "none"]
NotCalled == [kind |-> "none"]

Return(value) == [kind |-> "return", value |-> value]

\* the BadRequestError checkConstraints throws for an absent field
MissingField(key) ==
    Throw("BadRequest", "Missing required field: " \o key[2]
            \o " (needed for constraint " \o key[1] \o key[2] \o ")")

\* the loop of checkConstraints from entry i on: Return(TRUE), Return(FALSE)
\* or the error thrown
RECURSIVE checkFrom(_, _, _)
checkFrom(input, constraints, i) ==
    IF i > Len(constraints) THEN Return(TRUE)
    ELSE LET key == constraints[i][1]
             threshold == constraints[i][2]
             field == key[2]
         IN  IF key[1] = "max_"
             THEN IF Get(input, field) = Undefined THEN MissingField(key)
                  ELSE IF JsGreater(Get(input, field), threshold)
                  THEN Return(FALSE)
                  ELSE checkFrom(input, constraints, i + 1)
             ELSE IF key[1] = "min_"
             THEN IF Get(input, field) = Undefined THEN MissingField(key)
                  ELSE IF JsLess(Get(input, field), threshold)
                  THEN Return(FALSE)
                  ELSE checkFrom(input, constraints, i + 1)
             ELSE checkFrom(input, constraints, i + 1)

checkConstraints(input, constraints) == checkFrom(input, constraints, 1)

\* A stable insertion of band b into the sorted sequence s.
RECURSIVE InsertBand(_, _)
InsertBand(s, b) ==
    IF s = <<>> THEN <<b>>
    ELSE IF b.level < Head(s).level THEN <<b>> \o s
    ELSE <<Head(s)>> \o InsertBand(Tail(s), b)

RECURSIVE SortFrom(_, _, _)
SortFrom(bands, i, acc) ==
    IF i > Len(bands) THEN acc
    ELSE SortFrom(bands, i + 1, InsertBand(acc, bands[i]))

\* [...autonomyBands].sort((a, b) => a.level - b.level): Array.prototype.sort
\* is stable
sortAutonomyBands(autonomyBands) == SortFrom(autonomyBands, 1, <<>>)

\* sortedBands.find(band => checkConstraints(inputData, band.constraints)):
\* Return(i) for the first band that passes, Return(0) when none does, the
\* error when a check throws before one passes.
RECURSIVE findBand(_, _, _)
findBand(inputData, sortedBands, i) ==
    IF i > Len(sortedBands) THEN Return(0)
    ELSE LET r == checkConstraints(inputData, sortedBands[i].constraints)
         IN  IF r.kind = "throw" THEN r
             ELSE IF r.value THEN Return(i)
             ELSE findBand(inputData, sortedBands, i + 1)

escalationTargetDefault == "supervisor"

\* escalation?.ifOutside || "supervisor"; escalation is <<>> when absent
escalationTargetOf(escalation) ==
    IF escalation # <<>> /\ escalation[1].ifOutside # ""
    THEN escalation[1].ifOutside
    ELSE escalationTargetDefault

\* the check for bands made before the check of the action
evaluateBandsFirst(input, authority) ==
    IF Len(authority.autonomyBands) = 0
    THEN Throw("BadRequest", "Authority for action '" \o authority.action
                 \o "' has no autonomy bands defined")
    ELSE IF input.action # authority.action
    THEN Throw("BadRequest", "Action mismatch: expected '" \o authority.action
                 \o "', got '" \o input.action \o "'")
    ELSE LET sortedBands == sortAutonomyBands(authority.autonomyBands)
             m == findBand(input.data, sortedBands, 1)
         IN  IF m.kind = "throw" THEN m
             ELSE IF m.value > 0
             THEN [kind |-> "return", approved |-> TRUE,
                   autonomyLevel |-> sortedBands[m.value].level,
                   reason |-> "Approved under AL"
                       \o ToString(sortedBands[m.value].level) \o " constraints",
                   matchedBand |-> <<sortedBands[m.value]>>,
                   escalationTarget |-> <<>>]
             ELSE LET target == escalationTargetOf(authority.escalation)
                  IN  [kind |-> "return", approved |-> FALSE,
                       autonomyLevel |-> 0,
                       reason |-> "No autonomy band matches constraints. "
                           \o "Escalating to " \o target,
                       matchedBand |-> <<>>,
                       escalationTarget |-> <<target>>]

evaluate(input, authority) ==
    IF input.action # authority.action
    THEN Throw("BadRequest", "Action mismatch: expected '" \o authority.action
                 \o "', got '" \o input.action \o "'")
    ELSE IF Len(authority.autonomyBands) = 0
    THEN Throw("BadRequest", "Authority for action '" \o authority.action
                 \o "' has no autonomy bands defined")
    ELSE LET sortedBands == sortAutonomyBands(authority.autonomyBands)
             m == findBand(input.data, sortedBands, 1)
         IN  IF m.kind = "throw" THEN m
             ELSE IF m.value > 0
             THEN [kind |-> "return", approved |-> TRUE,
                   autonomyLevel |-> sortedBands[m.value].level,
                   reason |-> "Approved under AL"
                       \o ToString(sortedBands[m.value].level) \o " constraints",
                   matchedBand |-> <<sortedBands[m.value]>>,
                   escalationTarget |-> <<>>]
             ELSE LET target == escalationTargetOf(authority.escalation)
                  IN  [kind |-> "return", approved |-> FALSE,
                       autonomyLevel |-> 0,
                       reason |-> "No autonomy band matches constraints. "
                           \o "Escalating to " \o target,
                       matchedBand |-> <<>>,
                       escalationTarget |-> <<target>>]

(***************************************************************************)
(* The decision hash.  Object.keys(obj).sort() orders keys by code unit;   *)
(* KeyOrder lists the keys of the model in that order.                     *)
(***************************************************************************)
KeyOrder == <<"a", "approved", "autonomyLevel", "b", "escalationTarget",
              "p", "q", "reason", "success", "won", "x", "y">>

KeyRank(k) == CHOOSE i \in 1..Len(KeyOrder) : KeyOrder[i] = k

\* the pair kv put into the pairs s, kept ascending by key
RECURSIVE InsertPair(_, _)
InsertPair(s, kv) ==
    IF s = <<>> THEN <<kv>>
    ELSE IF KeyRank(kv[1]) < KeyRank(Head(s)[1]) THEN <<kv>> \o s
    ELSE <<Head(s)>> \o InsertPair(Tail(s), kv)

RECURSIVE SortPairsFrom(_, _, _)
SortPairsFrom(pairs, i, acc) ==
    IF i > Len(pairs) THEN acc
    ELSE SortPairsFrom(pairs, i + 1, InsertPair(acc, pairs[i]))

RECURSIVE sortKeysShallow(_)
sortKeysShallow(obj) ==
    IF obj.type = "array" THEN Arr([i \in 1..Len(obj.v) |-> sortKeysShallow(obj.v[i])])
    ELSE IF obj.type = "object" THEN Obj(SortPairsFrom(obj.v, 1, <<>>))
    ELSE obj

RECURSIVE sortKeys(_)
sortKeys(obj) ==
    IF obj.type = "array"
    THEN Arr([i \in 1..Len(obj.v) |-> sortKeys(obj.v[i])])
    ELSE IF obj.type = "object"
    THEN LET sorted == SortPairsFrom(obj.v, 1, <<>>)
         IN  Obj([i \in 1..Len(sorted) |->
                    <<sorted[i][1], sortKeys(sorted[i][2])>>])
    ELSE obj

\* JSON.stringify of a value that holds no undefined
RECURSIVE stringify(_)
RECURSIVE stringifyElems(_, _)
RECURSIVE stringifyPairs(_, _)
stringify(x) ==
    CASE x.type = "number" -> ToString(x.v)
      [] x.type = "string" -> "\"" \o x.v \o "\""
      [] x.type = "boolean" -> IF x.v THEN "true" ELSE "false"
      [] x.type = "null" -> "null"
      [] x.type = "array" -> "[" \o stringifyElems(x.v, 1) \o "]"
      [] x.type = "object" -> "{" \o stringifyPairs(x.v, 1) \o "}"

stringifyElems(elems, i) ==
    IF i > Len(elems) THEN ""
    ELSE (IF i > 1 THEN "," ELSE "") \o stringify(elems[i])
           \o stringifyElems(elems, i + 1)

stringifyPairs(pairs, i) ==
    IF i > Len(pairs) THEN ""
    ELSE (IF i > 1 THEN "," ELSE "") \o "\"" \o pairs[i][1] \o "\":"
           \o stringify(pairs[i][2]) \o stringifyPairs(pairs, i + 1)

\* createHash("sha256").update(s).digest("hex"): the digest is taken to be
\* free of collisions, so it is written as the text it digests.
sha256Hex(s) == "sha256(" \o s \o ")"

\* prevHash is Null or a hash string; policyVersion is a string
computeDecisionHash(params) ==
    LET stableInputs == stringify(sortKeys(params.inputs))
        stableOutput == stringify(sortKeys(params.output))
        hashInput == stableInputs \o "|" \o stableOutput \o "|"
                       \o (IF params.prevHash = Null \/ params.prevHash.v = ""
                           THEN "" ELSE params.prevHash.v)
                       \o "|" \o params.policyVersion
    IN  Str(sha256Hex(hashInput))

(***************************************************************************)
(* The reward computation.                                                 *)
(***************************************************************************)
Nullish(x) == x = Undefined \/ x = Null

\* the indicator without the final ?? false
successIndicatorNoDefault(metrics) ==
    IF ~Nullish(Get(metrics, "success")) THEN Get(metrics, "success")
    ELSE Get(metrics, "won")

\* metrics["success"] ?? metrics["won"] ?? false
successIndicator(metrics) ==
    IF ~Nullish(Get(metrics, "success")) THEN Get(metrics, "success")
    ELSE IF ~Nullish(Get(metrics, "won")) THEN Get(metrics, "won")
    ELSE Bool(FALSE)

\* the violation message of one constraints entry, or <<>> when it has none
violationOf(metrics, entry) ==
    LET prefix == entry[1][1]
        field == entry[1][2]
        constraintKey == prefix \o field
        constraintValue == entry[2]
        actualValue == Get(metrics, field)
    IN  IF prefix = "min_"
        THEN IF actualValue = Undefined
             THEN <<"Missing " \o field \o " for " \o constraintKey
                      \o " validation">>
             ELSE IF TypeOf(actualValue) # "number"
             THEN <<"Invalid " \o field \o " type (expected number)">>
             ELSE IF actualValue.v < constraintValue
             THEN <<field \o "=" \o ToString(actualValue.v) \o " below "
                      \o constraintKey \o "=" \o ToString(constraintValue)>>
             ELSE <<>>
        ELSE IF prefix = "max_"
        THEN IF actualValue = Undefined
             THEN <<"Missing " \o field \o " for " \o constraintKey
                      \o " validation">>
             ELSE IF TypeOf(actualValue) # "number"
             THEN <<"Invalid " \o field \o " type (expected number)">>
             ELSE IF actualValue.v > constraintValue
             THEN <<field \o "=" \o ToString(actualValue.v) \o " exceeds "
                      \o constraintKey \o "=" \o ToString(constraintValue)>>
             ELSE <<>>
        ELSE <<>>

RECURSIVE validateFrom(_, _, _)
validateFrom(metrics, constraints, i) ==
    IF i > Len(constraints) THEN <<>>
    ELSE violationOf(metrics, constraints[i])
           \o validateFrom(metrics, constraints, i + 1)

validateConstraintsFailFast(metrics, constraints) ==
    IF constraints = <<>> THEN <<>>
    ELSE violationOf(metrics, constraints[1])

\* each violation overwrites the one before it instead of being pushed
validateConstraintsKeepLast(metrics, constraints) ==
    LET violations == validateFrom(metrics, constraints, 1)
    IN  IF violations = <<>> THEN <<>>
        ELSE <<violations[Len(violations)]>>

validateConstraints(metrics, constraints) ==
    validateFrom(metrics, constraints, 1)

\* violations.join(", ")
RECURSIVE join(_, _)
join(strings, i) ==
    IF i > Len(strings) THEN ""
    ELSE (IF i > 1 THEN ", " ELSE "") \o strings[i] \o join(strings, i + 1)

computeScore == 1

RewardNull == [kind |-> "null"]
Reward(success, reason, score) ==
    [kind |-> "reward", success |-> success, reason |-> reason,
     score |-> score]

\* the reward of a decision of autonomy level 1 skipped as well
computeRewardSkippingLevelOne(input) ==
    LET metrics == input.outcome.metrics
        success == successIndicator(metrics)
        violations ==
            IF input.matchedBandConstraints # <<>>
            THEN validateConstraints(metrics, input.matchedBandConstraints[1])
            ELSE <<>>
    IN  IF input.decision.autonomyLevel <= 1 THEN RewardNull
        ELSE IF TypeOf(success) # "boolean"
        THEN Reward(FALSE, "Missing or invalid 'success' outcome metric", 0)
        ELSE IF ~success.v
        THEN Reward(FALSE, "Outcome marked as unsuccessful", 0)
        ELSE IF Len(violations) > 0
        THEN Reward(FALSE, "Constraint violations: " \o join(violations, 1), 0)
        ELSE Reward(TRUE, "Outcome successful and constraints satisfied",
                    computeScore)

\* the reward computed for escalated decisions like for any other
computeRewardOfEscalated(input) ==
    LET metrics == input.outcome.metrics
        success == successIndicator(metrics)
        violations ==
            IF input.matchedBandConstraints # <<>>
            THEN validateConstraints(metrics, input.matchedBandConstraints[1])
            ELSE <<>>
    IN  IF TypeOf(success) # "boolean"
        THEN Reward(FALSE, "Missing or invalid 'success' outcome metric", 0)
        ELSE IF ~success.v
        THEN Reward(FALSE, "Outcome marked as unsuccessful", 0)
        ELSE IF Len(violations) > 0
        THEN Reward(FALSE, "Constraint violations: " \o join(violations, 1), 0)
        ELSE Reward(TRUE, "Outcome successful and constraints satisfied",
                    computeScore)

\* input.matchedBandConstraints is <<>> for undefined, <<constraints>> else
computeReward(input) ==
    LET metrics == input.outcome.metrics
        success == successIndicator(metrics)
        violations ==
            IF input.matchedBandConstraints # <<>>
            THEN validateConstraints(metrics, input.matchedBandConstraints[1])
            ELSE <<>>
    IN  IF input.decision.autonomyLevel = 0 THEN RewardNull
        ELSE IF TypeOf(success) # "boolean"
        THEN Reward(FALSE, "Missing or invalid 'success' outcome metric", 0)
        ELSE IF ~success.v
        THEN Reward(FALSE, "Outcome marked as unsuccessful", 0)
        ELSE IF Len(violations) > 0
        THEN Reward(FALSE, "Constraint violations: " \o join(violations, 1), 0)
        ELSE Reward(TRUE, "Outcome successful and constraints satisfied",
                    computeScore)

(***************************************************************************)
(* The policy_versions table.  The core only reads it.  A reference        *)
(* string is kept as the sequence of its "@"-separated parts, which is     *)
(* what policyName.split("@") returns.                                     *)
(***************************************************************************)
ApproveAuthorityV1 ==
    [action |-> "approve",
     autonomyBands |-> <<
        [level |-> 2, constraints |-> <<<<<<"max_", "a">>, 2>>>>],
        [level |-> 1, constraints |-> <<<<<<"max_", "a">>, 1>>>>]>>,
     escalation |-> <<[ifOutside |-> "CFO"]>>]

FinanceDocV1 ==
    [version |-> "1",
     nodes |-> <<<<"fin", [authorities |-> <<ApproveAuthorityV1>>]>>,
                 <<"hr", [authorities |-> <<ApproveAuthorityV1>>]>>>>]

FinanceDocV2 ==
    [version |-> "2",
     nodes |-> <<<<"fin",
        [authorities |-> <<
           [action |-> "approve",
            autonomyBands |-> <<
               [level |-> 1, constraints |-> <<<<<<"max_", "a">>, 1>>,
                                               <<<<"min_", "a">>, 1>>>>]>>,
            escalation |-> <<>>]>>]>>>>]

PolicyRows ==
    <<[id |-> 1, name |-> "fin-constitution", version |-> "1",
       doc |-> FinanceDocV1, createdAt |-> 0],
      [id |-> 2, name |-> "fin-constitution", version |-> "2",
       doc |-> FinanceDocV2, createdAt |-> 1]>>

NoPolicy == [id |-> 0]

(***************************************************************************)
(* PolicyLoader                                                            *)
(***************************************************************************)
CACHE_TTL_MS == 60000

\* const [name, version] = policyName.split("@"); version || null
RECURSIVE joinAt(_, _)
joinAt(parts, i) ==
    IF i > Len(parts) THEN ""
    ELSE (IF i > 1 THEN "@" ELSE "") \o parts[i] \o joinAt(parts, i + 1)

\* the reference string the parts were split from
referenceOf(policyName) == joinAt(policyName, 1)

parsePolicyName(policyName) ==
    LET name == policyName[1]
        version == IF Len(policyName) >= 2 THEN policyName[2] ELSE ""
    IN  IF name = ""
        THEN Throw("BadRequest",
                   "Couldn't parse policy name and version from: "
                     \o referenceOf(policyName)
                     \o ". Expected format: <name>@<version>.")
        ELSE [kind |-> "return", name |-> name,
              version |-> IF version = "" THEN Null ELSE Str(version)]

\* `${key.name}@${key.version ?? "latest"}`
keyString(key) ==
    key.name \o "@" \o (IF key.version = Null THEN "latest" ELSE key.version.v)

\* the rows findFirst may return for where name = .. order by created_at desc
loadLatestFromDb(name) ==
    {r \in {PolicyRows[i] : i \in 1..Len(PolicyRows)} :
        /\ r.name = name
        /\ \A i \in 1..Len(PolicyRows) :
              PolicyRows[i].name = name => PolicyRows[i].createdAt <= r.createdAt}

\* the rows findFirst may return for where name = .. and version = ..
loadSpecificFromDb(name, version) ==
    {r \in {PolicyRows[i] : i \in 1..Len(PolicyRows)} :
        r.name = name /\ r.version = version}

\* an entry as old as the TTL treated as expired
getCachedStrict(c, key, t) ==
    LET k == keyString(key)
    IN  IF k \notin DOMAIN c \/ t - c[k].timestamp >= CACHE_TTL_MS
        THEN NoPolicy
        ELSE c[k].policy

\* getCached: the policy served, NoPolicy on a miss
getCached(c, key, t) ==
    LET k == keyString(key)
    IN  IF k \notin DOMAIN c \/ t - c[k].timestamp > CACHE_TTL_MS
        THEN NoPolicy
        ELSE c[k].policy

\* a cache whose hits renew the entry's timestamp
cacheAfterGetRenewing(c, key, t) ==
    LET k == keyString(key)
    IN  IF k \in DOMAIN c /\ t - c[k].timestamp > CACHE_TTL_MS
        THEN [x \in DOMAIN c \ {k} |-> c[x]]
        ELSE [x \in DOMAIN c |->
                IF x = k THEN [c[x] EXCEPT !.timestamp = t] ELSE c[x]]

\* the cache after getCached: a missing or stale entry is deleted
cacheAfterGet(c, key, t) ==
    LET k == keyString(key)
    IN  IF k \in DOMAIN c /\ t - c[k].timestamp > CACHE_TTL_MS
        THEN [x \in DOMAIN c \ {k} |-> c[x]]
        ELSE c

setCache(c, key, policy, t) ==
    LET k == keyString(key)
    IN  [x \in DOMAIN c \cup {k} |->
            IF x = k THEN [policy |-> policy, timestamp |-> t] ELSE c[x]]

\* no load has cached or thrown yet
NoLoads == [cached |-> <<>>, cachedBy |-> <<>>, notFound |-> {}]

(***************************************************************************)
(* makeDecision                                                            *)
(***************************************************************************)
Workers == {1, 2}
MaxDecisions == 2
MaxTime == 2

Idle == [pc |-> "idle"]

\* the requests of the model: one approved under the latest policy, one of
\* another node that escalates under a pinned version, and one for each way
\* a request fails before the ledger is read
Param(node, action, data, policyVersion) ==
    [node |-> node, action |-> action, data |-> data,
     policyVersion |-> policyVersion]

MakeDecisionParams ==
    {Param("fin", "approve", <<<<"a", Num(1)>>>>, <<>>),
     Param("hr", "approve", <<<<"a", Num(3)>>>>, <<"fin-constitution", "1">>),
     Param("fin", "approve", <<>>, <<>>),
     Param("fin", "other", <<<<"a", Num(1)>>>>, <<>>),
     Param("hr", "approve", <<<<"a", Num(1)>>>>, <<>>),
     Param("hr", "approve", <<<<"a", Num(1)>>>>, <<"fin-constitution">>)}

\* the response errorHandler sends for a CustomError: the status code of
\* its class, written as the class, and its message
ErrorResponse(op, e) ==
    [op |-> op, kind |-> "error", error |-> e.error, message |-> e.msg]

\* policyVersion ?? `${node}-constitution`
policyNameOf(params) ==
    IF params.policyVersion = <<>> THEN <<params.node \o "-constitution">>
    ELSE params.policyVersion

\* authorities.find((a) => a.action === action): <<authority>> or <<>>
findAuthority(authorities, action) ==
    IF \E i \in 1..Len(authorities) : authorities[i].action = action
    THEN <<authorities[CHOOSE i \in 1..Len(authorities) :
              /\ authorities[i].action = action
              /\ \A j \in 1..(i - 1) : authorities[j].action # action]>>
    ELSE <<>>

\* lines 52-75 of makeDecision: the node and authority lookups and the
\* evaluation, for a loaded policy row
evaluateUnder(params, policy) ==
    IF ~HasKey(policy.doc.nodes, params.node)
    THEN Throw("NotFound", "Node '" \o params.node \o "' not found in policy "
                 \o referenceOf(policyNameOf(params)))
    ELSE LET authority ==
               findAuthority(Get(policy.doc.nodes, params.node).authorities,
                             params.action)
         IN  IF authority = <<>>
             THEN Throw("BadRequest", "Action '" \o params.action
                          \o "' not found in node '" \o params.node
                          \o "' of policy "
                          \o referenceOf(policyNameOf(params)))
             ELSE evaluate([action |-> params.action, data |-> params.data],
                           authority[1])

\* the output object, keys in the order the object literal writes them
outputOf(evaluationResult) ==
    Obj(<<<<"approved", Bool(evaluationResult.approved)>>,
          <<"autonomyLevel", Num(evaluationResult.autonomyLevel)>>,
          <<"reason", Str(evaluationResult.reason)>>>>
        \o (IF evaluationResult.escalationTarget # <<>>
               /\ evaluationResult.escalationTarget[1] # ""
            THEN <<<<"escalationTarget",
                     Str(evaluationResult.escalationTarget[1])>>>>
            ELSE <<>>))

\* the rows findFirst({orderBy: [desc(decisions.ts)]}) may return: a row
\* of the greatest ts, any of them when several share it
latestDecisions(rows) ==
    {r \in {rows[i] : i \in 1..Len(rows)} :
        \A i \in 1..Len(rows) : rows[i].ts <= r.ts}

\* the position a request reaches once its policy row is known; of the
\* row it keeps the columns it reads from there on
afterLoad(params, policy) ==
    LET e == evaluateUnder(params, policy)
    IN  IF e.kind = "throw" THEN Idle
        ELSE [pc |-> "read", params |-> params,
              policy |-> [name |-> policy.name, version |-> policy.version],
              evaluationResult |-> e]

NoRow == [id |-> 0]
NoResponse == [op |-> "none", kind |-> "none"]

\* the response of a request whose evaluation throws
responseAfterLoad(params, policy) ==
    LET e == evaluateUnder(params, policy)
    IN  IF e.kind = "throw" THEN ErrorResponse("makeDecision", e)
        ELSE NoResponse

InFlight == {w \in Workers : reqs[w].pc # "idle"}

\* makeDecision up to its first database read: the reference is parsed and
\* the cache looked up; on a hit the request runs on to the evaluation
MD_Begin(w, params) ==
    /\ reqs[w].pc = "idle"
    /\ \A v \in Workers : v < w => reqs[v].pc # "idle"
    /\ LET parsed == parsePolicyName(policyNameOf(params))
           key == [name |-> parsed.name, version |-> parsed.version]
       IN  IF parsed.kind = "throw"
           THEN /\ response' = ErrorResponse("makeDecision", parsed)
                /\ UNCHANGED <<cache, reqs>>
           ELSE LET cached == getCached(cache, key, now)
                IN  /\ cache' = cacheAfterGet(cache, key, now)
                    /\ IF cached.id # 0
                       THEN /\ reqs' = [reqs EXCEPT ![w] = afterLoad(params, cached)]
                            /\ response' = responseAfterLoad(params, cached)
                       ELSE /\ reqs' = [reqs EXCEPT ![w] =
                                          [pc |-> "load", params |-> params,
                                           key |-> key]]
                            /\ response' = NoResponse
    /\ UNCHANGED <<policyVariantsStats, loads>>
    /\ UNCHANGED <<arg, ret, ledger, outcomes, matchedAt, now>>

\* a call of makeDecision, while fewer than MaxDecisions decisions are
\* stored or under way
MD_Start(w, params) ==
    /\ Len(ledger) + Cardinality(InFlight) < MaxDecisions
    /\ MD_Begin(w, params)

\* the message of the NotFoundError load throws for a key without a row
notFoundMessage(key) ==
    IF key.version = Null THEN "Policy " \o key.name \o "@latest not found"
    ELSE "Policy version " \o key.name \o "@" \o key.version.v \o " not found"

\* the policy row arrives from the database: it is cached, and the request
\* runs on to the evaluation
MD_Loaded(w) ==
    /\ reqs[w].pc = "load"
    /\ LET key == reqs[w].key
           params == reqs[w].params
           rows == IF key.version = Null THEN loadLatestFromDb(key.name)
                   ELSE loadSpecificFromDb(key.name, key.version.v)
       IN  IF rows = {}
           THEN /\ response' = ErrorResponse("makeDecision",
                                  Throw("NotFound", notFoundMessage(key)))
                /\ reqs' = [reqs EXCEPT ![w] = Idle]
                /\ UNCHANGED cache
           ELSE \E policy \in rows :
                /\ cache' = setCache(cache, key, policy, now)
                /\ reqs' = [reqs EXCEPT ![w] = afterLoad(params, policy)]
                /\ response' = responseAfterLoad(params, policy)
    /\ UNCHANGED <<policyVariantsStats, loads>>
    /\ UNCHANGED <<arg, ret, ledger, outcomes, matchedAt, now>>

\* the name of the policy without its version
policyVersionUnversioned(policy) == policy.name

\* `${policy.name}@${policy.version}`
policyVersionOf(policy) == policy.name \o "@" \o policy.version

\* the prevHash column of the previous decision in place of its hash
prevHashOfPrevious(previous) ==
    IF previous.id = 0 THEN Null ELSE previous.prevHash

\* previousDecision?.hash ?? null
prevHashOf(previous) == IF previous.id = 0 THEN Null ELSE previous.hash

\* the latest decision is read, and the output and the hash computed
MD_ReadLatest(w) ==
    /\ reqs[w].pc = "read"
    /\ \E previousDecision \in
            (IF ledger = <<>> THEN {NoRow} ELSE latestDecisions(ledger)) :
         LET r == reqs[w]
             prevHash == prevHashOf(previousDecision)
             output == outputOf(r.evaluationResult)
             policyVersion == policyVersionOf(r.policy)
             hash == computeDecisionHash(
                        [inputs |-> Obj(r.params.data), output |-> output,
                         prevHash |-> prevHash,
                         policyVersion |-> policyVersion])
         IN  reqs' = [reqs EXCEPT ![w] =
                        [pc |-> "insert", params |-> r.params,
                         policy |-> r.policy,
                         evaluationResult |-> r.evaluationResult,
                         prevHash |-> prevHash, output |-> output,
                         hash |-> hash, readAt |-> now]]
    /\ response' = NoResponse
    /\ UNCHANGED <<policyVariantsStats, loads>>
    /\ UNCHANGED <<arg, ret, ledger, outcomes, cache, matchedAt, now>>

\* an insert that also stamps the rows already stored
insertDecisionTouching(rows, values, t) ==
    Append([i \in 1..Len(rows) |-> [rows[i] EXCEPT !.ts = t]],
           [id |-> Len(rows) + 1, ts |-> t] @@ values)

\* db.insert(decisions): the row is appended with a fresh id and ts = now()
insertDecision(rows, values, t) ==
    Append(rows, [id |-> Len(rows) + 1, ts |-> t] @@ values)

\* the insert, run by the database strictly after the read that preceded
\* it, and the response
MD_Insert(w) ==
    /\ reqs[w].pc = "insert"
    /\ now > reqs[w].readAt
    /\ LET r == reqs[w]
           values == [node |-> r.params.node,
                      policyVersion |-> policyVersionOf(r.policy),
                      inputs |-> Obj(r.params.data),
                      output |-> r.output,
                      autonomyLevel |-> r.evaluationResult.autonomyLevel,
                      hash |-> r.hash,
                      prevHash |-> r.prevHash]
           insertedDecision == insertDecision(ledger, values, now)[Len(ledger) + 1]
       IN  /\ ledger' = insertDecision(ledger, values, now)
           /\ matchedAt' = Append(matchedAt, r.evaluationResult.matchedBand)
           /\ response' =
                [op |-> "makeDecision", kind |-> "ok", status |-> 201,
                 data |-> [id |-> insertedDecision.id,
                           approved |-> r.evaluationResult.approved,
                           autonomyLevel |-> r.evaluationResult.autonomyLevel,
                           reason |-> r.evaluationResult.reason,
                           hash |-> insertedDecision.hash,
                           prevHash |-> insertedDecision.prevHash,
                           policyVersion |-> insertedDecision.policyVersion,
                           escalationTarget |-> r.evaluationResult.escalationTarget,
                           ts |-> insertedDecision.ts]]
    /\ reqs' = [reqs EXCEPT ![w] = Idle]
    /\ UNCHANGED <<policyVariantsStats, loads>>
    /\ UNCHANGED <<arg, ret, outcomes, cache, now>>

(***************************************************************************)
(* Database failures of makeDecision.  A statement the database rejects    *)
(* throws a plain Error carrying the database's message.  Inside           *)
(* PolicyLoader.load the error handler of the loader wraps it in a         *)
(* ModelError; in makeDecision itself nothing catches it, and the global   *)
(* errorHandler answers.                                                   *)
(***************************************************************************)
\* the message of the error the database driver throws
DatabaseMessage == "connection terminated unexpectedly"

\* withErrorHandler: new ModelError(`Database error: ${error.message}`)
ModelError(error) == Throw("ModelError", "Database error: " \o error)

\* errorHandler for a ModelError, a CustomError of statusCode 500 whose
\* serializeErrors() is [{ message: this.message }]
ModelErrorResponse(op, e) ==
    [op |-> op, kind |-> "error", error |-> e.error, message |-> e.msg,
     status |-> 500]

\* errorHandler for an error that is no CustomError
InternalErrorResponse(op) ==
    [op |-> op, kind |-> "error", error |-> "Error",
     message |-> "Internal server error", status |-> 500]

\* the position of a request whose read of the latest decision threw, had
\* the read been taken to find no decision
afterFailedReadAssumingEmpty(r) ==
    LET output == outputOf(r.evaluationResult)
    IN  [pc |-> "insert", params |-> r.params, policy |-> r.policy,
         evaluationResult |-> r.evaluationResult,
         prevHash |-> Null, output |-> output,
         hash |-> computeDecisionHash(
                     [inputs |-> Obj(r.params.data), output |-> output,
                      prevHash |-> Null,
                      policyVersion |-> policyVersionOf(r.policy)]),
         readAt |-> now]

\* the position of a request whose read of the latest decision threw: the
\* await rejects and makeDecision is left
afterFailedRead(r) == Idle

\* the read of the policy row fails
MD_LoadFails(w) ==
    /\ reqs[w].pc = "load"
    /\ reqs' = [reqs EXCEPT ![w] = Idle]
    /\ response' = ModelErrorResponse("makeDecision",
                                      ModelError(DatabaseMessage))
    /\ UNCHANGED <<policyVariantsStats, loads>>
    /\ UNCHANGED <<arg, ret, ledger, outcomes, cache, matchedAt, now>>

\* the read of the latest decision fails
MD_ReadFails(w) ==
    /\ reqs[w].pc = "read"
    /\ reqs' = [reqs EXCEPT ![w] = afterFailedRead(reqs[w])]
    /\ response' = IF afterFailedRead(reqs[w]) = Idle
                   THEN InternalErrorResponse("makeDecision")
                   ELSE NoResponse
    /\ UNCHANGED <<policyVariantsStats, loads>>
    /\ UNCHANGED <<arg, ret, ledger, outcomes, cache, matchedAt, now>>

\* the insert fails: no row is stored
MD_InsertFails(w) ==
    /\ reqs[w].pc = "insert"
    /\ reqs' = [reqs EXCEPT ![w] = Idle]
    /\ response' = InternalErrorResponse("makeDecision")
    /\ UNCHANGED <<policyVariantsStats, loads>>
    /\ UNCHANGED <<arg, ret, ledger, outcomes, cache, matchedAt, now>>

(***************************************************************************)
(* The outcome routes                                                      *)
(***************************************************************************)
\* the decision ids the outcome routes are called with: the first two
\* decisions and an id no decision has
DecisionIds == {1, 2, MaxDecisions + 1}

\* the ids they are called with while makeDecision calls run concurrently
ConcurrentDecisionIds == {1, MaxDecisions + 1}

OutcomeMetrics ==
    {<<<<"success", Bool(TRUE)>>, <<"a", Num(1)>>>>,
     <<<<"success", Bool(TRUE)>>, <<"a", Num(3)>>>>}

\* a findFirst without its where clause: the first decision there is
findDecisionUnfiltered(rows, decisionId) ==
    IF rows = <<>> THEN NoRow ELSE rows[1]

\* db.query.decisions.findFirst({where: eq(decisions.id, decisionId)})
findDecision(rows, decisionId) ==
    IF \E i \in 1..Len(rows) : rows[i].id = decisionId
    THEN rows[CHOOSE i \in 1..Len(rows) : rows[i].id = decisionId]
    ELSE NoRow

\* (decision.output as any)?.matchedBand?.constraints: <<>> for undefined
matchedBandConstraintsOf(output) ==
    IF HasKey(output.v, "matchedBand")
    THEN <<Get(output.v, "matchedBand").v.constraints>>
    ELSE <<>>

\* insert ... onConflictDoUpdate on the primary key decision_id
upsertOutcome(rows, decisionId, metrics, t) ==
    [x \in DOMAIN rows \cup {decisionId} |->
        IF x = decisionId
        THEN [decisionId |-> decisionId, metrics |-> metrics, recordedAt |-> t]
        ELSE rows[x]]

\* POST /outcomes/:decisionId
RecordOutcome(decisionId, metrics) ==
    /\ LET decision == findDecision(ledger, decisionId)
       IN  IF decision.id = 0
           THEN /\ response' = ErrorResponse("recordOutcome",
                                  Throw("NotFound", "Decision " \o ToString(decisionId)
                                          \o " not found"))
                /\ UNCHANGED outcomes
           ELSE LET rewardInput ==
                      [decision |-> [autonomyLevel |-> decision.autonomyLevel,
                                     inputs |-> decision.inputs,
                                     output |-> decision.output,
                                     policyVersion |-> decision.policyVersion,
                                     node |-> decision.node],
                       outcome |-> [metrics |-> metrics],
                       matchedBandConstraints |->
                           matchedBandConstraintsOf(decision.output)]
                    outcome == upsertOutcome(outcomes, decisionId, metrics, now)[decisionId]
                IN  /\ outcomes' = upsertOutcome(outcomes, decisionId, metrics, now)
                    /\ response' =
                         [op |-> "recordOutcome", kind |-> "ok", status |-> 201,
                          data |-> [decisionId |-> outcome.decisionId,
                                    metrics |-> outcome.metrics,
                                    recordedAt |-> outcome.recordedAt,
                                    reward |-> computeReward(rewardInput)]]
    /\ UNCHANGED <<policyVariantsStats, loads>>
    /\ UNCHANGED <<arg, ret, ledger, cache, reqs, matchedAt, now>>

\* GET /outcomes/:decisionId
GetOutcome(decisionId) ==
    /\ IF decisionId \in DOMAIN outcomes
       THEN response' =
              [op |-> "getOutcome", kind |-> "ok", status |-> 200,
               data |-> [decisionId |-> outcomes[decisionId].decisionId,
                         metrics |-> outcomes[decisionId].metrics,
                         recordedAt |-> outcomes[decisionId].recordedAt]]
       ELSE response' = ErrorResponse("getOutcome",
                            Throw("NotFound", "Outcome for decision "
                                    \o ToString(decisionId) \o " not found"))
    /\ UNCHANGED <<policyVariantsStats, loads>>
    /\ UNCHANGED <<arg, ret, ledger, outcomes, cache, reqs, matchedAt, now>>

\* time passes.  A step of the clock is taken only while an insert waits for
\* its turn, which is where the order of the clock values matters.
Tick ==
    /\ now < MaxTime
    /\ \E w \in Workers : reqs[w].pc = "insert"
    /\ now' = now + 1
    /\ response' = NoResponse
    /\ UNCHANGED <<policyVariantsStats, loads>>
    /\ UNCHANGED <<arg, ret, ledger, outcomes, cache, reqs, matchedAt>>

(***************************************************************************)
(* The system: requests are handled concurrently (Spec), or each           *)
(* makeDecision completes before the next begins (SpecSeq).  Spec follows  *)
(* the interleavings of statements the database accepts; the statements    *)
(* it rejects are followed in SpecSeq.                                     *)
(***************************************************************************)
Init ==
    /\ arg = NoCall
    /\ ret = NotCalled
    /\ ledger = <<>>
    /\ outcomes = <<>>
    /\ cache = <<>>
    /\ reqs = [w \in Workers |-> Idle]
    /\ response = NoResponse
    /\ matchedAt = <<>>
    /\ now = 0
    /\ policyVariantsStats = <<>>
    /\ loads = NoLoads

Next ==
    \/ \E w \in Workers, params \in MakeDecisionParams : MD_Start(w, params)
    \/ \E w \in Workers : MD_Loaded(w)
    \/ \E w \in Workers : MD_ReadLatest(w)
    \/ \E w \in Workers : MD_Insert(w)
    \/ \E decisionId \in ConcurrentDecisionIds, metrics \in OutcomeMetrics :
          RecordOutcome(decisionId, metrics)
    \/ \E decisionId \in ConcurrentDecisionIds : GetOutcome(decisionId)
    \/ Tick

Spec == Init /\ [][Next]_vars

MD_StartAlone(w, params) ==
    /\ InFlight = {}
    /\ MD_Start(w, params)

NextSeq ==
    \/ \E w \in Workers, params \in MakeDecisionParams : MD_StartAlone(w, params)
    \/ \E w \in Workers : MD_Loaded(w)
    \/ \E w \in Workers : MD_ReadLatest(w)
    \/ \E w \in Workers : MD_Insert(w)
    \/ \E w \in Workers : MD_LoadFails(w)
    \/ \E w \in Workers : MD_ReadFails(w)
    \/ \E w \in Workers : MD_InsertFails(w)
    \/ \E decisionId \in DecisionIds, metrics \in OutcomeMetrics :
          RecordOutcome(decisionId, metrics)
    \/ \E decisionId \in DecisionIds : GetOutcome(decisionId)
    \/ Tick

SpecSeq == Init /\ [][NextSeq]_vars

ChainUnbroken ==
    /\ \A i \in 2..Len(ledger) : ledger[i].prevHash = ledger[i - 1].hash
    /\ \A i, j \in 1..Len(ledger) :
          i # j => ledger[i].prevHash # ledger[j].prevHash

\* C8: no step updates or deletes a stored decision: every row of the
\* ledger is the same row, at the same place, after the step.
DecisionsAppendOnly ==
    [][/\ Len(ledger') >= Len(ledger)
       /\ \A i \in 1..Len(ledger) : ledger'[i] = ledger[i]]_vars

\* a second decision has been appended behind a stored one, an outcome has
\* been recorded for the first and read back
AppendedAndRead ==
    /\ Len(ledger) = 2
    /\ 1 \in DOMAIN outcomes
    /\ response.op = "getOutcome"
    /\ response.kind = "ok"
    /\ response.data.decisionId = 1

\* C9: the reward of an outcome is computed against the constraints of the
\* band the decision was approved under: when the outcome reports
\* success = true and its metrics violate those constraints, the reward
\* returned has success = false.
RewardAgainstMatchedBand ==
    (/\ response.op = "recordOutcome"
     /\ response.kind = "ok"
     /\ matchedAt[response.data.decisionId] # <<>>
     /\ successIndicator(response.data.metrics) = Bool(TRUE)
     /\ validateConstraints(
            response.data.metrics,
            matchedAt[response.data.decisionId][1].constraints) # <<>>)
    => /\ response.data.reward.kind = "reward"
       /\ response.data.reward.success = FALSE

(***************************************************************************)
(* The pure functions, each applied once to an argument drawn from a       *)
(* bounded set.                                                            *)
(***************************************************************************)
SeqsUpTo(S, n) == UNION {[1..k -> S] : k \in 0..n}

\* the tables and the requests stay as constructed while a function is
\* applied
Untouched ==
    /\ ledger = <<>>
    /\ outcomes = <<>>
    /\ cache = <<>>
    /\ reqs = [w \in Workers |-> Idle]
    /\ response = NoResponse
    /\ matchedAt = <<>>
    /\ now = 0
    /\ policyVariantsStats = <<>>
    /\ loads = NoLoads

Called == ret # NotCalled

ConstraintKeys == {<<"max_", "a">>, <<"min_", "b">>}

\* constraints objects of at most two entries, no key twice
ConstraintObjects ==
    {<<>>}
    \cup {<<<<k, Threshold>>>> : k \in ConstraintKeys}
    \cup {<<<<kk[1], Threshold>>, <<kk[2], Threshold>>>> :
             kk \in {p \in ConstraintKeys \X ConstraintKeys : p[1] # p[2]}}

BandLevels == 0..2

BandSet == {[level |-> l, constraints |-> c] :
               l \in BandLevels, c \in ConstraintObjects}

\* the values of field a: below, at and above the threshold, and a string
\* that is no numeral
ValuesOfA == {Num(Threshold - 1), Num(Threshold), Num(Threshold + 1),
              Str("abc")}

\* the values of field b: below and at the threshold
ValuesOfB == {Num(Threshold - 1), Num(Threshold)}

\* data objects: each field absent or present
DataObjects ==
    {da \o db : da \in {<<>>} \cup {<<<<"a", v>>>> : v \in ValuesOfA},
                db \in {<<>>} \cup {<<<<"b", v>>>> : v \in ValuesOfB}}

Escalations == {<<>>, <<[ifOutside |-> "CFO"]>>, <<[ifOutside |-> ""]>>}

\* evaluate is given an authority of at most MaxBands bands for the action
\* asked, or one of at most one band for another action; checkConstraints
\* is given one constraints object
EvalInit ==
    /\ \/ arg \in
            {[fn |-> "evaluate",
              input |-> [action |-> "approve", data |-> d],
              authority |-> [action |-> "approve", autonomyBands |-> bs,
                             escalation |-> e]] :
                d \in DataObjects, bs \in SeqsUpTo(BandSet, MaxBands),
                e \in Escalations}
       \/ arg \in
            {[fn |-> "evaluate",
              input |-> [action |-> "other", data |-> d],
              authority |-> [action |-> "approve", autonomyBands |-> bs,
                             escalation |-> <<>>]] :
                d \in DataObjects, bs \in SeqsUpTo(BandSet, 1)}
       \/ arg \in
            {[fn |-> "checkConstraints", input |-> d, constraints |-> c] :
                d \in DataObjects, c \in ConstraintObjects}
    /\ ret = NotCalled
    /\ Untouched

Evaluate ==
    /\ arg.fn = "evaluate"
    /\ ~Called
    /\ ret' = evaluate(arg.input, arg.authority)
    /\ UNCHANGED <<policyVariantsStats, loads>>
    /\ UNCHANGED <<arg, ledger, outcomes, cache, reqs, response, matchedAt, now>>

CheckConstraints ==
    /\ arg.fn = "checkConstraints"
    /\ ~Called
    /\ ret' = checkConstraints(arg.input, arg.constraints)
    /\ UNCHANGED <<policyVariantsStats, loads>>
    /\ UNCHANGED <<arg, ledger, outcomes, cache, reqs, response, matchedAt, now>>

EvalNext == Evaluate \/ CheckConstraints

SpecEval == EvalInit /\ [][EvalNext]_vars

\* x <= t and x >= t for a number t, as JavaScript compares them
JsLessEq(x, t) == LET nx == ToNumber(x) IN ~nx.nan /\ nx.n <= t
JsGreaterEq(x, t) == LET nx == ToNumber(x) IN ~nx.nan /\ nx.n >= t

\* one constraints entry is satisfied by the data: max_X when
\* input[X] <= threshold, min_X when input[X] >= threshold
Satisfied(input, entry) ==
    IF entry[1][1] = "max_" THEN JsLessEq(Get(input, entry[1][2]), entry[2])
    ELSE JsGreaterEq(Get(input, entry[1][2]), entry[2])

AllSatisfied(input, constraints) ==
    \A i \in 1..Len(constraints) : Satisfied(input, constraints[i])

AllPresent(input, constraints) ==
    \A i \in 1..Len(constraints) : Get(input, constraints[i][1][2]) # Undefined

\* band i comes before band j in ascending level order, bands of equal
\* level in their original order
Before(bands, i, j) ==
    \/ bands[i].level < bands[j].level
    \/ bands[i].level = bands[j].level /\ i < j

\* the call is one evaluate examines the bands of: the actions agree, there
\* is a band, and every field a constraint names is present
WellFormedEvaluate ==
    /\ arg.fn = "evaluate"
    /\ Called
    /\ arg.input.action = arg.authority.action
    /\ Len(arg.authority.autonomyBands) > 0
    /\ \A i \in 1..Len(arg.authority.autonomyBands) :
          AllPresent(arg.input.data, arg.authority.autonomyBands[i].constraints)

\* C3: when the actions agree, there is a band and every constrained field
\* is present, the autonomy level returned is the level of the first band,
\* in ascending level order with ties in original order, whose constraints
\* are all satisfied (max_X by input[X] <= threshold, min_X by
\* input[X] >= threshold).
FirstSatisfiedBandWins ==
    LET bands == arg.authority.autonomyBands
        data == arg.input.data
    IN  WellFormedEvaluate =>
          \A i \in 1..Len(bands) :
             (/\ AllSatisfied(data, bands[i].constraints)
              /\ \A j \in 1..Len(bands) :
                    (j # i /\ AllSatisfied(data, bands[j].constraints))
                       => Before(bands, i, j))
             => /\ ret.kind = "return"
                /\ ret.approved
                /\ ret.autonomyLevel = bands[i].level
                /\ ret.matchedBand = <<bands[i]>>

\* C4: with every constrained field present, the constraints check passes
\* exactly when every max_X entry has input[X] <= threshold and every
\* min_X entry has input[X] >= threshold.
InclusiveThresholds ==
    (/\ arg.fn = "checkConstraints"
     /\ Called
     /\ AllPresent(arg.input, arg.constraints))
    => /\ ret.kind = "return"
       /\ ret.value = AllSatisfied(arg.input, arg.constraints)

\* the target the authority configures, "supervisor" when it configures none
ConfiguredTarget(escalation) ==
    IF escalation = <<>> \/ escalation[1].ifOutside = "" THEN "supervisor"
    ELSE escalation[1].ifOutside

\* C5: when no band has all its constraints satisfied and no field is
\* missing, the result is approved = false, autonomyLevel = 0, the
\* escalation target is the configured one or "supervisor", and the reason
\* names it.
NoBandEscalates ==
    LET bands == arg.authority.autonomyBands
        target == ConfiguredTarget(arg.authority.escalation)
    IN  (/\ WellFormedEvaluate
         /\ \A i \in 1..Len(bands) :
               ~AllSatisfied(arg.input.data, bands[i].constraints))
        => /\ ret.kind = "return"
           /\ ~ret.approved
           /\ ret.autonomyLevel = 0
           /\ ret.escalationTarget = <<target>>
           /\ ret.reason = "No autonomy band matches constraints. "
                              \o "Escalating to " \o target

\* C6: when a band that evaluate examines (no band before it has passed)
\* has a constraint on a field absent from the data, the evaluation fails
\* with BadRequest, whatever the band's other constraints are.
MissingFieldFailsEvaluation ==
    LET sortedBands == sortAutonomyBands(arg.authority.autonomyBands)
        data == arg.input.data
    IN  (/\ arg.fn = "evaluate"
         /\ Called
         /\ arg.input.action = arg.authority.action
         /\ \E i \in 1..Len(sortedBands) :
               /\ ~AllPresent(data, sortedBands[i].constraints)
               /\ \A j \in 1..(i - 1) :
                     checkConstraints(data, sortedBands[j].constraints)
                        # Return(TRUE))
        => /\ ret.kind = "throw"
           /\ ret.error = "BadRequest"

(***************************************************************************)
(* computeDecisionHash, applied to two parameter objects.                  *)
(***************************************************************************)
\* the two orders in which an object of two keys can be written
Orders(k1, v1, k2, v2) ==
    {<<<<k1, v1>>, <<k2, v2>>>>, <<<<k2, v2>>, <<k1, v1>>>>}

InnerObjects ==
    {Obj(o) : o \in Orders("p", Num(1), "q", Num(2))}
    \cup {Obj(o) : o \in Orders("p", Num(2), "q", Num(1))}

HashInputs ==
    {Obj(o) : o \in UNION {Orders("x", Num(1), "y", v) :
                v \in InnerObjects \cup {Arr(<<i>>) : i \in InnerObjects}}}

HashOutputs ==
    {Obj(o) : o \in Orders("approved", Bool(TRUE), "autonomyLevel", Num(1))}

HashParams ==
    {[inputs |-> i, output |-> o, prevHash |-> h,
      policyVersion |-> "fin-constitution@1"] :
        i \in HashInputs, o \in HashOutputs,
        h \in {Null, Str("sha256(0)")}}

HashInit ==
    /\ arg \in {[fn |-> "computeDecisionHash", first |-> p, second |-> q] :
                  p \in HashParams,
                  q \in {x \in HashParams : x.prevHash # Null}}
    /\ ret = NotCalled
    /\ Untouched

ComputeDecisionHash ==
    /\ arg.fn = "computeDecisionHash"
    /\ ~Called
    /\ ret' = [kind |-> "return",
               first |-> computeDecisionHash(arg.first),
               second |-> computeDecisionHash(arg.second)]
    /\ UNCHANGED <<policyVariantsStats, loads>>
    /\ UNCHANGED <<arg, ledger, outcomes, cache, reqs, response, matchedAt, now>>

HashNext == ComputeDecisionHash

SpecHash == HashInit /\ [][HashNext]_vars

\* x and y are equal as nested key/value structures: objects with the same
\* keys and equal values under each, arrays of equal elements in the same
\* order, or the same primitive
RECURSIVE SameStructure(_, _)
SameStructure(x, y) ==
    IF x.type # y.type THEN FALSE
    ELSE IF x.type = "object"
    THEN /\ Len(x.v) = Len(y.v)
         /\ \A i \in 1..Len(x.v) :
               /\ HasKey(y.v, x.v[i][1])
               /\ SameStructure(x.v[i][2], Get(y.v, x.v[i][1]))
    ELSE IF x.type = "array"
    THEN /\ Len(x.v) = Len(y.v)
         /\ \A i \in 1..Len(x.v) : SameStructure(x.v[i], y.v[i])
    ELSE x = y

SameArguments ==
    /\ SameStructure(arg.first.inputs, arg.second.inputs)
    /\ SameStructure(arg.first.output, arg.second.output)
    /\ arg.first.prevHash = arg.second.prevHash
    /\ arg.first.policyVersion = arg.second.policyVersion

\* C7: two calls whose inputs and outputs are equal as nested key/value
\* structures, with the same prevHash and policyVersion, return the same
\* hash.
HashKeyOrderIndependent ==
    (arg.fn = "computeDecisionHash" /\ Called /\ SameArguments)
    => ret.first = ret.second

\* the same arguments written with keys in another order at the top and
\* inside an array element, hashed alike
ReorderedHashedAlike ==
    /\ arg.fn = "computeDecisionHash"
    /\ Called
    /\ SameArguments
    /\ arg.first.inputs.v[1][1] # arg.second.inputs.v[1][1]
    /\ Get(arg.first.inputs.v, "y").type = "array"
    /\ Get(arg.first.inputs.v, "y") # Get(arg.second.inputs.v, "y")
    /\ arg.first.output # arg.second.output
    /\ ret.first = ret.second

(***************************************************************************)
(* computeReward                                                           *)
(***************************************************************************)
SuccessValues == {<<>>, <<<<"success", Bool(TRUE)>>>>,
                  <<<<"success", Bool(FALSE)>>>>,
                  <<<<"success", Str("yes")>>>>,
                  <<<<"success", Null>>>>}

WonValues == {<<>>, <<<<"won", Bool(TRUE)>>>>, <<<<"won", Bool(FALSE)>>>>,
              <<<<"won", Str("yes")>>>>}

MetricsObjects ==
    {sv \o wv \o d : sv \in SuccessValues, wv \in WonValues, d \in DataObjects}

RewardInputs ==
    {[decision |-> [autonomyLevel |-> al],
      outcome |-> [metrics |-> m],
      matchedBandConstraints |-> mc] :
        al \in BandLevels, m \in MetricsObjects,
        mc \in {<<>>} \cup {<<c>> : c \in ConstraintObjects}}

RewardInit ==
    /\ arg \in {[fn |-> "computeReward", input |-> i] : i \in RewardInputs}
    /\ ret = NotCalled
    /\ Untouched

ComputeReward ==
    /\ arg.fn = "computeReward"
    /\ ~Called
    /\ ret' = computeReward(arg.input)
    /\ UNCHANGED <<policyVariantsStats, loads>>
    /\ UNCHANGED <<arg, ledger, outcomes, cache, reqs, response, matchedAt, now>>

RewardNext == ComputeReward

SpecReward == RewardInit /\ [][RewardNext]_vars

\* a min_X / max_X entry is satisfied by a numeric metrics[X] within the
\* inclusive bound
MetBy(metrics, entry) ==
    LET x == Get(metrics, entry[1][2])
    IN  /\ x.type = "number"
        /\ IF entry[1][1] = "max_" THEN x.v <= entry[2] ELSE x.v >= entry[2]

AllMet(metrics, matched) ==
    matched # <<>> =>
        \A i \in 1..Len(matched[1]) : MetBy(metrics, matched[1][i])

\* C10: for autonomyLevel > 0 the reward is success = true with score 1
\* exactly when the success indicator computeReward reads from the metrics
\* is true and every entry of the matched constraints is met by a numeric
\* metric within the inclusive bound; otherwise it is success = false,
\* score 0.
RewardSuccessIffAllMet ==
    (/\ arg.fn = "computeReward"
     /\ Called
     /\ arg.input.decision.autonomyLevel > 0)
    => /\ ret.kind = "reward"
       /\ IF /\ successIndicator(arg.input.outcome.metrics) = Bool(TRUE)
             /\ AllMet(arg.input.outcome.metrics,
                       arg.input.matchedBandConstraints)
          THEN ret.success /\ ret.score = 1
          ELSE ~ret.success /\ ret.score = 0

\* success is reported, the first matched constraint is met and the second
\* is not: the reward is a failure
SecondConstraintViolated ==
    /\ arg.fn = "computeReward"
    /\ Called
    /\ arg.input.decision.autonomyLevel > 0
    /\ successIndicator(arg.input.outcome.metrics) = Bool(TRUE)
    /\ arg.input.matchedBandConstraints # <<>>
    /\ Len(arg.input.matchedBandConstraints[1]) = 2
    /\ MetBy(arg.input.outcome.metrics, arg.input.matchedBandConstraints[1][1])
    /\ ~MetBy(arg.input.outcome.metrics, arg.input.matchedBandConstraints[1][2])
    /\ ~ret.success
    /\ ret.score = 0

RewardCalled ==
    /\ arg.fn = "computeReward"
    /\ Called

\* C11: computeReward returns null when decision.autonomyLevel is 0,
\* whatever the metrics and the matched constraints are, and a result that
\* is not null when autonomyLevel is not 0.
NullRewardIffLevelZero ==
    RewardCalled =>
        (ret = RewardNull <=> arg.input.decision.autonomyLevel = 0)

\* a successful outcome within the matched constraints, reported for an
\* escalated decision, earns no reward
EscalatedSuccessUnrewarded ==
    /\ RewardCalled
    /\ arg.input.decision.autonomyLevel = 0
    /\ Get(arg.input.outcome.metrics, "success") = Bool(TRUE)
    /\ arg.input.matchedBandConstraints # <<>>
    /\ AllMet(arg.input.outcome.metrics, arg.input.matchedBandConstraints)
    /\ ret = RewardNull

\* metrics.success when it is a boolean, otherwise metrics.won
BooleanSuccessElseWon(metrics) ==
    IF Get(metrics, "success").type = "boolean"
    THEN Get(metrics, "success")
    ELSE Get(metrics, "won")

MissingOrInvalid == "Missing or invalid 'success' outcome metric"
Unsuccessful == "Outcome marked as unsuccessful"

NeitherBoolean(metrics) ==
    /\ Get(metrics, "success").type # "boolean"
    /\ Get(metrics, "won").type # "boolean"

\* C13 as stated: with neither metrics.success nor metrics.won a boolean
\* (both absent included) and autonomyLevel > 0, the reward is success =
\* false, score 0 with the missing/invalid reason, which is not the reason
\* given for an indicator that is the boolean false.
NeitherBooleanIsInvalid ==
    (/\ RewardCalled
     /\ arg.input.decision.autonomyLevel > 0
     /\ NeitherBoolean(arg.input.outcome.metrics))
    => /\ ret = Reward(FALSE, MissingOrInvalid, 0)
       /\ MissingOrInvalid # Unsuccessful

\* C13 amended: with neither metrics.success nor metrics.won a boolean and
\* autonomyLevel > 0, the reward is success = false, score 0; its reason is
\* the missing/invalid one when the first of success, won that is neither
\* absent nor null is not a boolean, and the reason of an unsuccessful
\* outcome when both are absent or null.
NeitherBooleanIsFailure ==
    (/\ RewardCalled
     /\ arg.input.decision.autonomyLevel > 0
     /\ NeitherBoolean(arg.input.outcome.metrics))
    => LET metrics == arg.input.outcome.metrics
       IN  ret = Reward(FALSE,
                        IF /\ Nullish(Get(metrics, "success"))
                           /\ Nullish(Get(metrics, "won"))
                        THEN Unsuccessful
                        ELSE MissingOrInvalid,
                        0)

\* metrics with neither success nor won, reported unsuccessful
AbsentIndicatorUnsuccessful ==
    /\ RewardCalled
    /\ arg.input.decision.autonomyLevel > 0
    /\ ~HasKey(arg.input.outcome.metrics, "success")
    /\ ~HasKey(arg.input.outcome.metrics, "won")
    /\ ret = Reward(FALSE, Unsuccessful, 0)

\* the messages that name the field of a constraints entry as violated:
\* missing, of another type than number, or a number beyond the threshold
MessagesNaming(entry) ==
    LET field == entry[1][2]
        constraintKey == entry[1][1] \o field
    IN  {"Missing " \o field \o " for " \o constraintKey \o " validation",
         "Invalid " \o field \o " type (expected number)"}
        \cup {field \o "=" \o ToString(n)
                 \o (IF entry[1][1] = "max_" THEN " exceeds " ELSE " below ")
                 \o constraintKey \o "=" \o ToString(entry[2]) :
               n \in {m \in (entry[2] - 2)..(entry[2] + 2) :
                        IF entry[1][1] = "max_" THEN m > entry[2]
                        ELSE m < entry[2]}}

BothViolated ==
    /\ RewardCalled
    /\ arg.input.decision.autonomyLevel > 0
    /\ successIndicator(arg.input.outcome.metrics) = Bool(TRUE)
    /\ arg.input.matchedBandConstraints # <<>>
    /\ Len(arg.input.matchedBandConstraints[1]) = 2
    /\ \A i \in 1..2 : ~MetBy(arg.input.outcome.metrics,
                               arg.input.matchedBandConstraints[1][i])

\* C14: with a true success indicator and both entries of the matched
\* constraints violated, the reward is one result, success = false, whose
\* reason lists a violation message for the field of the first entry and
\* one for the field of the second.
EveryViolationNamed ==
    BothViolated =>
        /\ ret.kind = "reward"
        /\ ~ret.success
        /\ \E m1 \in MessagesNaming(arg.input.matchedBandConstraints[1][1]),
              m2 \in MessagesNaming(arg.input.matchedBandConstraints[1][2]) :
              ret.reason = "Constraint violations: " \o m1 \o ", " \o m2

\* one field above its max_ threshold and the other missing, both listed
ExceededAndMissingListed ==
    /\ BothViolated
    /\ ret.reason \in
          {"Constraint violations: a=" \o ToString(Threshold + 1)
             \o " exceeds max_a=" \o ToString(Threshold)
             \o ", Missing b for min_b validation",
           "Constraint violations: Missing b for min_b validation, a="
             \o ToString(Threshold + 1) \o " exceeds max_a="
             \o ToString(Threshold)}

(***************************************************************************)
(* The statistics of policy variants                                       *)
(***************************************************************************)
\* alpha and beta of a variant; a variant without a row is at the prior
AlphaOf(stats, variant) ==
    IF variant \in DOMAIN stats THEN stats[variant].alpha ELSE 1

BetaOf(stats, variant) ==
    IF variant \in DOMAIN stats THEN stats[variant].beta ELSE 1

\* C15: every outcome report for a decision made under variant V adds one
\* to V's alpha when its reward is a success, one to V's beta when its
\* reward is a failure and nothing when the reward is null, so that after
\* any reports alpha = 1 + successes and beta = 1 + failures.
StatsCountRewards ==
    [][(response'.op = "recordOutcome" /\ response'.kind = "ok") =>
         LET reward == response'.data.reward
             variant ==
                 findDecision(ledger, response'.data.decisionId).policyVersion
         IN  /\ AlphaOf(policyVariantsStats', variant) =
                   AlphaOf(policyVariantsStats, variant)
                     + (IF reward.kind = "reward" /\ reward.success
                        THEN 1 ELSE 0)
             /\ BetaOf(policyVariantsStats', variant) =
                   BetaOf(policyVariantsStats, variant)
                     + (IF reward.kind = "reward" /\ ~reward.success
                        THEN 1 ELSE 0)]_vars

(***************************************************************************)
(* PolicyLoader.load called on its own.  A call runs up to its database    *)
(* read in one step and from the arrival of the row in another; between    *)
(* the two, other calls run and time passes.  arg is the call the last     *)
(* step began and ret the result the last step delivered.                  *)
(***************************************************************************)
MaxPeriods == 1
MaxMillis == 1

\* the references loaded: the bare name, two pinned versions of which one
\* has no row, the version spelled "latest", the empty string and a
\* version without a name
PolicyNames ==
    {<<"fin-constitution">>, <<"fin-constitution", "2">>,
     <<"fin-constitution", "3">>, <<"fin-constitution", "latest">>,
     <<"">>, <<"", "1">>}

LoadCall(policyName) == [fn |-> "load", policyName |-> policyName]

LoadResult(policyName, result) ==
    [kind |-> "load", policyName |-> policyName, result |-> result]

\* the history after a load of policyName cached policy under key at t:
\* per reference the first caching that is not yet older than the TTL,
\* per key the reference that wrote the entry
loadsAfterCached(h, policyName, key, policy, t) ==
    [cached |->
        IF policyName \in DOMAIN h.cached
           /\ t - h.cached[policyName].at <= CACHE_TTL_MS
        THEN h.cached
        ELSE [x \in DOMAIN h.cached \cup {policyName} |->
                IF x = policyName THEN [policy |-> policy, at |-> t]
                ELSE h.cached[x]],
     cachedBy |->
        [x \in DOMAIN h.cachedBy \cup {keyString(key)} |->
            IF x = keyString(key) THEN policyName ELSE h.cachedBy[x]],
     notFound |-> h.notFound \ {policyName}]

\* the history after a load of policyName found no row
loadsAfterNotFound(h, policyName) ==
    [h EXCEPT !.notFound = h.notFound \cup {policyName}]

\* load up to its database read: parsePolicyName, getCached and, on a
\* miss, the query sent
Load_Start(w, policyName) ==
    /\ reqs[w].pc = "idle"
    /\ \A v \in Workers : v < w => reqs[v].pc # "idle"
    /\ arg' = LoadCall(policyName)
    /\ LET parsed == parsePolicyName(policyName)
           key == [name |-> parsed.name, version |-> parsed.version]
       IN  IF parsed.kind = "throw"
           THEN /\ ret' = LoadResult(policyName, parsed)
                /\ UNCHANGED <<cache, reqs, loads>>
           ELSE LET cached == getCached(cache, key, now)
                IN  /\ cache' = cacheAfterGet(cache, key, now)
                    /\ IF cached.id # 0
                       THEN /\ ret' = LoadResult(policyName, Return(cached))
                            /\ UNCHANGED <<reqs, loads>>
                       ELSE /\ ret' = NotCalled
                            /\ reqs' = [reqs EXCEPT ![w] =
                                          [pc |-> "load",
                                           policyName |-> policyName,
                                           key |-> key]]
                            /\ UNCHANGED loads
    /\ UNCHANGED <<ledger, outcomes, response, matchedAt, now,
                   policyVariantsStats>>

\* the row arrives from the database: NotFound without one, else the row
\* is cached and returned
Load_Loaded(w) ==
    /\ reqs[w].pc = "load"
    /\ "policyName" \in DOMAIN reqs[w]
    /\ LET key == reqs[w].key
           policyName == reqs[w].policyName
           rows == IF key.version = Null THEN loadLatestFromDb(key.name)
                   ELSE loadSpecificFromDb(key.name, key.version.v)
       IN  IF rows = {}
           THEN /\ ret' = LoadResult(policyName,
                                     Throw("NotFound", notFoundMessage(key)))
                /\ loads' = loadsAfterNotFound(loads, policyName)
                /\ UNCHANGED cache
           ELSE \E policy \in rows :
                /\ cache' = setCache(cache, key, policy, now)
                /\ ret' = LoadResult(policyName, Return(policy))
                /\ loads' = loadsAfterCached(loads, policyName, key, policy,
                                             now)
    /\ reqs' = [reqs EXCEPT ![w] = Idle]
    /\ arg' = NoCall
    /\ UNCHANGED <<ledger, outcomes, response, matchedAt, now,
                   policyVariantsStats>>

\* time passes: by a millisecond, MaxMillis times in a period of the TTL,
\* or by the TTL
TickLoader ==
    /\ \/ /\ now % CACHE_TTL_MS < MaxMillis
          /\ now' = now + 1
       \/ /\ now \div CACHE_TTL_MS < MaxPeriods
          /\ now' = now + CACHE_TTL_MS
    /\ arg' = NoCall
    /\ ret' = NotCalled
    /\ UNCHANGED <<ledger, outcomes, cache, reqs, response, matchedAt,
                   policyVariantsStats, loads>>

LoaderNext ==
    \/ \E w \in Workers, policyName \in PolicyNames :
          Load_Start(w, policyName)
    \/ \E w \in Workers : Load_Loaded(w)
    \/ TickLoader

SpecLoader == Init /\ [][LoaderNext]_vars

\* the last step began a load of a reference that a load of the same
\* reference cached no longer than the TTL ago
CachedWithinTTL ==
    /\ arg.fn = "load"
    /\ arg.policyName \in DOMAIN loads.cached
    /\ now - loads.cached[arg.policyName].at <= CACHE_TTL_MS

\* C16: a load of a reference begun within the TTL after a load of the same
\* reference was cached returns the document that load returned, in the
\* step of the call, that is without a query to the database.
SecondLoadFromCache ==
    CachedWithinTTL =>
        ret = LoadResult(arg.policyName,
                         Return(loads.cached[arg.policyName].policy))

\* a second load of the bare name, exactly the TTL after the first was
\* cached, served the row of the first
ServedAtTTL ==
    /\ CachedWithinTTL
    /\ arg.policyName = <<"fin-constitution">>
    /\ now - loads.cached[arg.policyName].at = CACHE_TTL_MS
    /\ ret.kind = "load"
    /\ ret.result = Return(loads.cached[arg.policyName].policy)
    /\ \A w \in Workers : reqs[w].pc = "idle"

StoredRows == {PolicyRows[i] : i \in 1..Len(PolicyRows)}

\* C17: a load of a bare name returns a stored row of that name of the
\* greatest creation time; a load of name@version returns the row of
\* exactly that name and version.
LatestOrExactRow ==
    (ret.kind = "load" /\ ret.result.kind = "return") =>
        LET row == ret.result.value
            policyName == ret.policyName
        IN  /\ row \in StoredRows
            /\ row.name = policyName[1]
            /\ IF Len(policyName) = 1
               THEN \A r \in StoredRows :
                       r.name = row.name => r.createdAt <= row.createdAt
               ELSE row.version = policyName[2]

\* the last step answered a load from the cache
AnsweredFromCache ==
    /\ arg.fn = "load"
    /\ ret.kind = "load"
    /\ ret.result.kind = "return"

\* the entry the last step looked up
slotOf(policyName) ==
    LET parsed == parsePolicyName(policyName)
    IN  keyString([name |-> parsed.name, version |-> parsed.version])

\* C18: a load of a pinned reference name@v is answered only from an entry
\* that a load of a pinned reference cached, and a load of a bare name only
\* from an entry that a load of a bare name cached.
SlotsNeverShared ==
    AnsweredFromCache =>
        (Len(arg.policyName) = 1) =
            (Len(loads.cachedBy[slotOf(arg.policyName)]) = 1)

MatchingRows(policyName) ==
    {r \in StoredRows :
        /\ r.name = policyName[1]
        /\ Len(policyName) > 1 => r.version = policyName[2]}

\* C19: a load of a reference with an empty name throws BadRequest in the
\* step of the call, without a query to the database; a load of a
\* reference with a name and no matching row throws NotFound; and a load
\* of a reference whose last load found no row queries the database again.
FailedLoads ==
    /\ (arg.fn = "load" /\ arg.policyName[1] = "") =>
          /\ ret.kind = "load"
          /\ ret.result.kind = "throw"
          /\ ret.result.error = "BadRequest"
          /\ \A w \in Workers : reqs[w].pc = "idle" \/ reqs[w].policyName[1] # ""
    /\ (/\ ret.kind = "load"
        /\ ret.policyName[1] # ""
        /\ MatchingRows(ret.policyName) = {}) =>
          /\ ret.result.kind = "throw"
          /\ ret.result.error = "NotFound"
    /\ (arg.fn = "load" /\ arg.policyName \in loads.notFound) =>
          /\ ret = NotCalled
          /\ \E w \in Workers :
                /\ reqs[w].pc = "load"
                /\ reqs[w].policyName = arg.policyName

(***************************************************************************)
(* POST /outcomes/:decisionId in its two database statements.  Between     *)
(* the read of the decision and the upsert, other outcome requests run     *)
(* and time passes; new Date() of the set clause is taken when the upsert  *)
(* is built, before the database executes it.                              *)
(***************************************************************************)
\* insert ... values(..) onConflictDoUpdate({set: {metrics, recordedAt}}):
\* an inserted row takes recorded_at from defaultNow(), a row in conflict
\* takes it from the set clause
upsertOutcomeSet(rows, decisionId, metrics, recordedAt, t) ==
    [x \in DOMAIN rows \cup {decisionId} |->
        IF x = decisionId
        THEN [decisionId |-> decisionId, metrics |-> metrics,
              recordedAt |-> IF decisionId \in DOMAIN rows THEN recordedAt
                             ELSE t]
        ELSE rows[x]]

\* the decision is looked up; without one NotFound is thrown, else the
\* upsert is built and sent
RO_Find(w, decisionId, metrics) ==
    /\ reqs[w].pc = "idle"
    /\ \A v \in Workers : v < w => reqs[v].pc # "idle"
    /\ LET decision == findDecision(ledger, decisionId)
       IN  IF decision.id = 0
           THEN /\ response' = ErrorResponse("recordOutcome",
                                  Throw("NotFound", "Decision "
                                          \o ToString(decisionId)
                                          \o " not found"))
                /\ UNCHANGED reqs
           ELSE /\ reqs' = [reqs EXCEPT ![w] =
                              [pc |-> "upsert", decisionId |-> decisionId,
                               metrics |-> metrics, decision |-> decision,
                               recordedAt |-> now]]
                /\ response' = NoResponse
    /\ UNCHANGED <<policyVariantsStats, loads>>
    /\ UNCHANGED <<arg, ret, ledger, outcomes, cache, matchedAt, now>>

\* the database executes the upsert; the reward is computed and the
\* response sent
RO_Upsert(w) ==
    /\ reqs[w].pc = "upsert"
    /\ LET r == reqs[w]
           rewardInput ==
               [decision |-> [autonomyLevel |-> r.decision.autonomyLevel,
                              inputs |-> r.decision.inputs,
                              output |-> r.decision.output,
                              policyVersion |-> r.decision.policyVersion,
                              node |-> r.decision.node],
                outcome |-> [metrics |-> r.metrics],
                matchedBandConstraints |->
                    matchedBandConstraintsOf(r.decision.output)]
           rows == upsertOutcomeSet(outcomes, r.decisionId, r.metrics,
                                    r.recordedAt, now)
       IN  /\ outcomes' = rows
           /\ response' =
                [op |-> "recordOutcome", kind |-> "ok", status |-> 201,
                 data |-> [decisionId |-> rows[r.decisionId].decisionId,
                           metrics |-> rows[r.decisionId].metrics,
                           recordedAt |-> rows[r.decisionId].recordedAt,
                           reward |-> computeReward(rewardInput)]]
    /\ reqs' = [reqs EXCEPT ![w] = Idle]
    /\ UNCHANGED <<policyVariantsStats, loads>>
    /\ UNCHANGED <<arg, ret, ledger, cache, matchedAt, now>>

\* time passes while a statement waits for the database
TickOutcomes ==
    /\ now < MaxTime
    /\ \E w \in Workers : reqs[w].pc \in {"insert", "upsert"}
    /\ now' = now + 1
    /\ response' = NoResponse
    /\ UNCHANGED <<policyVariantsStats, loads>>
    /\ UNCHANGED <<arg, ret, ledger, outcomes, cache, reqs, matchedAt>>

OutcomesNext ==
    \/ \E w \in Workers, params \in MakeDecisionParams : MD_StartAlone(w, params)
    \/ \E w \in Workers : MD_Loaded(w)
    \/ \E w \in Workers : MD_ReadLatest(w)
    \/ \E w \in Workers : MD_Insert(w)
    \/ \E w \in Workers, decisionId \in ConcurrentDecisionIds,
           metrics \in OutcomeMetrics : RO_Find(w, decisionId, metrics)
    \/ \E w \in Workers : RO_Upsert(w)
    \/ \E decisionId \in ConcurrentDecisionIds : GetOutcome(decisionId)
    \/ TickOutcomes

SpecOutcomes == Init /\ [][OutcomesNext]_vars

\* C20: the outcomes table has one row per decision id at most; a report
\* for a decision that has an outcome replaces its metrics and sets a
\* recordedAt not earlier than the one it had, and leaves the outcomes of
\* the other decisions as they were.
UpsertKeepsOneFreshOutcome ==
    [][\A w \in Workers :
         (reqs[w].pc = "upsert" /\ reqs'[w].pc = "idle") =>
            LET decisionId == reqs[w].decisionId
            IN  /\ DOMAIN outcomes' = DOMAIN outcomes \cup {decisionId}
                /\ outcomes'[decisionId].decisionId = decisionId
                /\ outcomes'[decisionId].metrics = reqs[w].metrics
                /\ decisionId \in DOMAIN outcomes =>
                      outcomes'[decisionId].recordedAt
                        >= outcomes[decisionId].recordedAt
                /\ \A d \in DOMAIN outcomes \ {decisionId} :
                      outcomes'[d] = outcomes[d]]_vars

(***************************************************************************)
(* Failures of makeDecision (SpecSeq)                                      *)
(***************************************************************************)
\* the prevHash a read of the ledger may deliver
ReadablePrevHashes(rows) ==
    IF rows = <<>> THEN {Null}
    ELSE {r.hash : r \in latestDecisions(rows)}

\* C21: a makeDecision request that fails before its insert, be it at the
\* policy load, the node or authority lookup, the evaluation or the read of
\* the latest hash, is answered with an error and appends no decision; and
\* a decision is appended only by a request at its insert, with the
\* prevHash that request read from the ledger.
FailureAppendsNothing ==
    [][/\ \A w \in Workers :
            (reqs[w].pc \in {"load", "read"} /\ reqs'[w].pc = "idle")
               => (response'.kind = "error" /\ ledger' = ledger)
       /\ (response'.op = "makeDecision" /\ response'.kind = "error")
             => ledger' = ledger
       /\ \A w \in Workers :
            (reqs[w].pc = "read" /\ reqs'[w].pc = "insert")
               => reqs'[w].prevHash \in ReadablePrevHashes(ledger)
       /\ ledger' # ledger
             => /\ Len(ledger') = Len(ledger) + 1
                /\ \E w \in Workers :
                     /\ reqs[w].pc = "insert"
                     /\ ledger'[Len(ledger')].prevHash = reqs[w].prevHash
                     /\ reqs[w].prevHash \in ReadablePrevHashes(ledger)]_vars

\* a policy load fails at the database after a decision was stored, and
\* the ledger keeps its one row
LoadFailedAfterDecision ==
    /\ response.op = "makeDecision"
    /\ response.kind = "error"
    /\ response.error = "ModelError"
    /\ Len(ledger) = 1
    /\ InFlight = {}

(***************************************************************************)
(* The outcome routes and ids without a row (SpecSeq)                      *)
(***************************************************************************)
\* the ids of the decisions in the ledger
LedgerIds == {ledger[i].id : i \in 1..Len(ledger)}

\* C22: POST /outcomes/:decisionId for an id no decision has is answered
\* NotFound and writes no outcome, and it is answered NotFound for such ids
\* only; GET /outcomes/:decisionId for an id without a stored outcome is
\* answered NotFound, for such ids only, and no GET changes the ledger or
\* the outcomes.
UnknownIdsNotFound ==
    [][/\ response'.op = "recordOutcome" =>
            IF response'.kind = "ok"
            THEN /\ response'.data.decisionId \in LedgerIds
                 /\ response'.data.decisionId \in DOMAIN outcomes'
            ELSE /\ response'.error = "NotFound"
                 /\ outcomes' = outcomes
                 /\ \E d \in DecisionIds \ LedgerIds :
                      response'.message = "Decision " \o ToString(d) \o " not found"
       /\ response'.op = "getOutcome" =>
            /\ outcomes' = outcomes
            /\ ledger' = ledger
            /\ IF response'.kind = "ok"
               THEN response'.data.decisionId \in DOMAIN outcomes
               ELSE /\ response'.error = "NotFound"
                    /\ \E d \in DecisionIds \ DOMAIN outcomes :
                         response'.message = "Outcome for decision "
                                                \o ToString(d) \o " not found"]_vars

\* an outcome is reported for an id no decision has while decisions and
\* outcomes exist, and the outcomes are those of the decisions
UnknownDecisionRefused ==
    /\ response.op = "recordOutcome"
    /\ response.kind = "error"
    /\ Len(ledger) = MaxDecisions
    /\ DOMAIN outcomes = LedgerIds

\* the error classes whose message is meant for the caller (the zod
\* validation of the request happens before makeDecision is entered)
SpecificErrors == {"BadRequest", "NotFound", "Validation"}

\* C23: a failure of the database during the policy load or during
\* makeDecision is answered with status 500 and the generic message, which
\* holds nothing of the database's own message; only BadRequest, NotFound
\* and validation errors carry a message of their own.
StorageFailuresGeneric ==
    (response.op = "makeDecision" /\ response.kind = "error"
       /\ response.error \notin SpecificErrors)
        => /\ response.status = 500
           /\ response.message = "Internal server error"

(***************************************************************************)
(* The order of decision, outcome and reward (SpecOutcomes)                *)
(***************************************************************************)
\* C24: an outcome is stored only for a decision that is in the ledger,
\* by a request that found the decision before; a reward is answered only
\* once the outcome of that decision is stored, and it is a reward proper
\* exactly when the decision's autonomy level is above 0: for a decision
\* of level 0 the outcome is stored all the same and the reward is null.
OutcomeThenReward ==
    [][/\ DOMAIN outcomes' \subseteq LedgerIds'
       /\ outcomes' # outcomes
             => \E w \in Workers :
                  /\ reqs[w].pc = "upsert"
                  /\ reqs[w].decisionId \in LedgerIds
                  /\ reqs[w].decisionId \in DOMAIN outcomes'
       /\ (response'.op = "recordOutcome" /\ response'.kind = "ok")
             => LET id == response'.data.decisionId
                IN  /\ id \in DOMAIN outcomes'
                    /\ outcomes'[id].metrics = response'.data.metrics
                    /\ (response'.data.reward = RewardNull)
                         <=> (findDecision(ledger, id).autonomyLevel = 0)]_vars

\* the outcome of an escalated decision is stored and answered without a
\* reward
EscalatedOutcomeStored ==
    /\ response.op = "recordOutcome"
    /\ response.kind = "ok"
    /\ response.data.reward = RewardNull
    /\ response.data.decisionId \in DOMAIN outcomes
    /\ findDecision(ledger, response.data.decisionId).autonomyLevel = 0

(***************************************************************************)
(* The evaluator: level 0, and the order of its checks (SpecEval)          *)
(***************************************************************************)
\* C25: evaluate returns autonomy level 0 exactly when it does not approve,
\* also for an authority with a band of level 0; a result of level 0 is an
\* escalation and names its escalation target.
LevelZeroIffEscalated ==
    (arg.fn = "evaluate" /\ Called /\ ret.kind = "return")
        => /\ (ret.autonomyLevel = 0) <=> (ret.approved = FALSE)
           /\ (ret.autonomyLevel = 0) => (ret.escalationTarget # <<>>)

\* C26: evaluate throws BadRequest when the action asked differs from the
\* authority's, whatever the bands are, and BadRequest when the actions
\* agree and the authority has no band; the action is checked first, and in
\* both cases no constraint of a band is examined (no missing field is
\* reported) and no result is returned.
ActionThenBandsChecked ==
    (arg.fn = "evaluate" /\ Called)
        => /\ arg.input.action # arg.authority.action
                => ret = Throw("BadRequest",
                               "Action mismatch: expected '"
                                  \o arg.authority.action \o "', got '"
                                  \o arg.input.action \o "'")
           /\ (arg.input.action = arg.authority.action
                 /\ Len(arg.authority.autonomyBands) = 0)
                => ret = Throw("BadRequest",
                               "Authority for action '"
                                  \o arg.authority.action
                                  \o "' has no autonomy bands defined")

\* evaluate was called for another action with an authority without bands
OtherActionNoBands ==
    /\ arg.fn = "evaluate"
    /\ Called
    /\ arg.input.action # arg.authority.action
    /\ Len(arg.authority.autonomyBands) = 0
    /\ ret.kind = "throw"

(***************************************************************************)
(* The read of the latest decision after concurrent inserts.  Two calls of *)
(* makeDecision whose inserts the database runs at the same instant store  *)
(* rows of equal ts; SpecTies follows one more call than Spec does, so     *)
(* that a call reads the ledger with such rows in it.                      *)
(***************************************************************************)
\* an approved request under the latest policy and an escalated one under
\* a pinned version: their decisions differ in every hashed part
TiedParams ==
    {Param("fin", "approve", <<<<"a", Num(1)>>>>, <<>>),
     Param("hr", "approve", <<<<"a", Num(3)>>>>, <<"fin-constitution", "1">>)}

MD_StartOneMore(w, params) ==
    /\ Len(ledger) + Cardinality(InFlight) < MaxDecisions + 1
    /\ MD_Begin(w, params)

TiesNext ==
    \/ \E w \in Workers, params \in TiedParams : MD_StartOneMore(w, params)
    \/ \E w \in Workers : MD_Loaded(w)
    \/ \E w \in Workers : MD_ReadLatest(w)
    \/ \E w \in Workers : MD_Insert(w)
    \/ Tick

SpecTies == Init /\ [][TiesNext]_vars

\* C27: the prevHash a call of makeDecision reads is the hash of the
\* decision inserted last: the rows are taken by ts descending and, among
\* rows of equal ts, the one inserted last is chosen; with no decision
\* stored the prevHash is null.
ReadsLastInserted ==
    [][\A w \in Workers :
          (reqs[w].pc = "read" /\ reqs'[w].pc = "insert")
             => reqs'[w].prevHash =
                   (IF ledger = <<>> THEN Null
                    ELSE ledger[Len(ledger)].hash)]_vars

(***************************************************************************)
(* The age of cache entries (SpecLoader)                                   *)
(***************************************************************************)
\* the cache slot a reference is looked up in
slotKeyOf(policyName) ==
    LET parsed == parsePolicyName(policyName)
    IN  keyString([name |-> parsed.name, version |-> parsed.version])

\* C28: a cache entry is served only while at most CACHE_TTL_MS have passed
\* since it was stored, and serving it leaves its timestamp as it was; a
\* load that finds the entry older deletes it and reads the store; and an
\* entry is written only with the row read from the store in that step and
\* the time of that step, so that no load returns a row read from the
\* store more than one TTL before.
ExpiryFromStoring ==
    [][/\ (arg'.fn = "load" /\ parsePolicyName(arg'.policyName).kind # "throw")
            => LET k == slotKeyOf(arg'.policyName)
               IN  IF k \in DOMAIN cache
                      /\ now - cache[k].timestamp <= CACHE_TTL_MS
                   THEN /\ ret' = LoadResult(arg'.policyName,
                                             Return(cache[k].policy))
                        /\ cache' = cache
                   ELSE /\ k \notin DOMAIN cache'
                        /\ ret' = NotCalled
                        /\ \E w \in Workers :
                             /\ reqs[w].pc = "idle"
                             /\ reqs'[w].pc = "load"
                             /\ keyString(reqs'[w].key) = k
       /\ \A k \in DOMAIN cache' :
            (k \notin DOMAIN cache \/ cache'[k] # cache[k])
               => /\ cache'[k].timestamp = now
                  /\ cache'[k].policy \in StoredRows
                  /\ ret'.kind = "load"
                  /\ ret'.result = Return(cache'[k].policy)
                  /\ \E w \in Workers :
                       /\ reqs[w].pc = "load"
                       /\ keyString(reqs[w].key) = k
                       /\ reqs'[w].pc = "idle"]_vars

\* the bare name is loaded more than the TTL after it was cached: the
\* entry is gone and the store is asked
ExpiredEntryReloaded ==
    /\ arg = LoadCall(<<"fin-constitution">>)
    /\ arg.policyName \in DOMAIN loads.cached
    /\ now - loads.cached[arg.policyName].at > CACHE_TTL_MS
    /\ slotKeyOf(arg.policyName) \notin DOMAIN cache
    /\ ret = NotCalled
    /\ \E w \in Workers : reqs[w].pc = "load"

(***************************************************************************)
(* The hash of a stored decision (Spec)                                    *)
(***************************************************************************)
\* C29: every decision written carries the hash computeDecisionHash gives
\* for its stored inputs, output, prevHash and policyVersion, and its
\* stored policyVersion is the name@version of the policy row its request
\* loaded, a row of the table, also when the request named no version.
StoredHashOfStoredFields ==
    [][ledger' # ledger
          => LET row == ledger'[Len(ledger')]
             IN  /\ row.hash =
                       computeDecisionHash(
                          [inputs |-> row.inputs, output |-> row.output,
                           prevHash |-> row.prevHash,
                           policyVersion |-> row.policyVersion])
                 /\ \E w \in Workers :
                      /\ reqs[w].pc = "insert"
                      /\ reqs'[w].pc = "idle"
                      /\ row.inputs = Obj(reqs[w].params.data)
                      /\ row.policyVersion =
                            reqs[w].policy.name \o "@" \o reqs[w].policy.version
                      /\ \E p \in StoredRows :
                            /\ p.name = reqs[w].policy.name
                            /\ p.version = reqs[w].policy.version
                            /\ (reqs[w].params.policyVersion = <<>>
                                  => \A q \in StoredRows :
                                        q.name = p.name
                                           => q.createdAt <= p.createdAt)]_vars

\* a request without policyVersion and one with a pinned version have been
\* stored, each under the name@version of its row
DefaultAndPinnedStored ==
    /\ Len(ledger) = 2
    /\ ledger[1].policyVersion = "fin-constitution@2"
    /\ ledger[1].node = "fin"
    /\ ledger[2].policyVersion = "fin-constitution@1"
    /\ ledger[2].prevHash = ledger[1].hash
    /\ response.op = "makeDecision"
    /\ response.kind = "ok"

(***************************************************************************)
(* The evaluator's band check and the reward's validation on the same data *)
(* (SpecEval)                                                              *)
(***************************************************************************)
\* every field the constraints name is present in the data and a number
AllNumeric(data, constraints) ==
    \A i \in 1..Len(constraints) :
        /\ HasKey(data, constraints[i][1][2])
        /\ TypeOf(Get(data, constraints[i][1][2])) = "number"

\* the reward of a decision whose own inputs are reported as its metrics,
\* with success = true, against the band it was approved under
RewardOfOwnInputs(data, result) ==
    computeReward(
        [decision |-> [autonomyLevel |-> result.autonomyLevel],
         outcome |-> [metrics |-> <<<<"success", Bool(TRUE)>>>> \o data],
         matchedBandConstraints |-> <<result.matchedBand[1].constraints>>])

\* the band check and the validation agree on data whose constrained
\* fields are all present and numbers
CheckAgreesWithValidation ==
    (arg.fn = "checkConstraints" /\ Called
       /\ AllNumeric(arg.input, arg.constraints))
        => ret = Return(validateConstraints(arg.input, arg.constraints) = <<>>)

\* C30: on data in which every constrained field is present and a number,
\* checkConstraints passes exactly when validateConstraints reports no
\* violation; and the inputs of an approved decision, reported as its
\* metrics with success = true, are rewarded with success = true.
EvaluatorAndRewardAgree ==
    /\ CheckAgreesWithValidation
    /\ (arg.fn = "evaluate" /\ Called /\ ret.kind = "return" /\ ret.approved
          /\ AllNumeric(arg.input.data, ret.matchedBand[1].constraints))
         => RewardOfOwnInputs(arg.input.data, ret)
               = Reward(TRUE, "Outcome successful and constraints satisfied",
                        computeScore)

=============================================================================
